---- MODULE Spec2Model ----
(***************************************************************************)
(* Model of the OpenAPI 3 validation middleware for net/http               *)
(* (middleware.go, response_writer.go).                                    *)
(*                                                                         *)
(* One request at a time travels through the middleware built by           *)
(* WithValidation, WithRequestValidation or WithResponseValidation.  The   *)
(* router, the validation engine and the wrapped handler are inputs: the   *)
(* router is a table, the engine returns any error value, the handler is   *)
(* any bounded sequence of Header().Set / WriteHeader / Write calls.       *)
(***************************************************************************)
EXTENDS Integers, Sequences, FiniteSets, TLC

\* ------------------------------------------------------------------ bounds
\* The largest number of calls the wrapped handler makes on its writer.
MaxCalls == 3

\* How many calls a handler makes on its writer when requests overlap.
ConcCalls == 2

\* ------------------------------------------------------- program constants
StatusOK == 200
StatusBadRequest == 400
StatusNotFound == 404
StatusMethodNotAllowed == 405
StatusInternalServerError == 500

\* ----------------------------------------------------------- error values
\* A Go error is modelled by its Unwrap chain, outermost first; nil is the
\* empty chain.  A node carries its dynamic type (what %T prints), its
\* identity (what errors.Is compares), its own message, and, for a
\* SchemaError, the fields of the violation.
nil == <<>>

TRequestError == "*openapi3filter.RequestError"
TResponseError == "*openapi3filter.ResponseError"
TSchemaError == "*openapi3.SchemaError"
TSecurityError == "*openapi3filter.SecurityRequirementsError"
TRouteError == "*routers.RouteError"
TWrapError == "*fmt.wrapError"
TErrorString == "*errors.errorString"
TFindRouteErr == "*openapi3middleware.findRouteErr"

Node(t, id, msg) ==
  [type |-> t, id |-> id, msg |-> msg,
   Reason |-> "", SchemaField |-> "", Value |-> "", Schema |-> ""]

SchemaErrorNode(reason, field, value, schema) ==
  [type |-> TSchemaError, id |-> "schema", msg |-> reason,
   Reason |-> reason, SchemaField |-> field, Value |-> value, Schema |-> schema]

ErrPathNotFound == <<Node(TRouteError, "ErrPathNotFound", "no matching operation was found")>>
ErrMethodNotAllowed == <<Node(TRouteError, "ErrMethodNotAllowed", "method not allowed")>>

MissingID == SchemaErrorNode("property id is missing", "required", "{name,age}", "User")
AgeNotInteger == SchemaErrorNode("value must be an integer", "type", "abc", "Age")
Violations == {MissingID, AgeNotInteger}

RequestErrorNode == Node(TRequestError, "request", "request body has an error")
ResponseErrorNode == Node(TResponseError, "response", "response body doesn't match schema")
WrapNode == Node(TWrapError, "wrap", "validation failed")
SecurityNode == Node(TSecurityError, "security", "security requirements failed")
PlainNode == Node(TErrorString, "plain", "unexpected failure")

\* The error values openapi3filter.ValidateRequest may return: its result
\* type is error, so besides nil and a *RequestError (with or without a
\* SchemaError below it, possibly wrapped) it may be any other error.
RequestErrors ==
  {nil, <<RequestErrorNode>>, <<SecurityNode>>, <<PlainNode>>,
   <<RequestErrorNode, PlainNode>>}
    \cup {<<RequestErrorNode, v>> : v \in Violations}
    \cup {<<WrapNode, RequestErrorNode, v>> : v \in Violations}
    \cup {<<RequestErrorNode, WrapNode, v>> : v \in Violations}
    \cup {<<RequestErrorNode, AgeNotInteger, MissingID>>}

\* The error values openapi3filter.ValidateResponse may return.
ResponseErrors ==
  {nil, <<ResponseErrorNode>>, <<PlainNode>>,
   <<ResponseErrorNode, PlainNode>>}
    \cup {<<ResponseErrorNode, v>> : v \in Violations}
    \cup {<<WrapNode, ResponseErrorNode, v>> : v \in Violations}
    \cup {<<ResponseErrorNode, WrapNode, v>> : v \in Violations}
    \cup {<<ResponseErrorNode, MissingID, AgeNotInteger>>}

\* errors.As(err, &target) for a target of dynamic type t: the position of
\* the first node of that type in the chain, 0 when there is none.
RECURSIVE AsFrom(_, _, _)
AsFrom(err, t, i) ==
  IF i > Len(err) THEN 0
  ELSE IF err[i].type = t THEN i
  ELSE AsFrom(err, t, i + 1)

As(err, t) == AsFrom(err, t, 1)

\* errors.Is(err, target): some node of the chain is the target itself.
Is(err, target) == \E i \in 1..Len(err) : err[i].id = target[1].id

\* The chain below position i (what the field Err of that node holds).
Below(err, i) == SubSeq(err, i + 1, Len(err))

\* ------------------------------------------------------------ the requests
Methods == {"GET", "POST"}
Paths == {"/users/123", "/users", "/unknown"}
Requests == [method : Methods, path : Paths]

\* router.FindRoute(r) for the router of the tests' OpenAPI document:
\* GET /users/{id} and POST /users are operations.
FindRoute(r) ==
  IF r.path = "/unknown" THEN ErrPathNotFound
  ELSE IF r.path = "/users/123" /\ r.method = "GET" THEN nil
  ELSE IF r.path = "/users" /\ r.method = "POST" THEN nil
  ELSE ErrMethodNotAllowed

\* ------------------------------------------------------- the real sink
\* The http.ResponseWriter the server hands to the middleware.  The header
\* map stays writable, but only its content at the first WriteHeader is
\* sent; only the first WriteHeader counts; a Write before any WriteHeader
\* sends status 200 first.  by names the caller of the WriteHeader that set
\* the status, calls counts the WriteHeader calls received, writes the
\* Write calls, last is the argument of the latest WriteHeader call.
HeaderKeys == {"content-type", "x-request-id"}

NoHeader == [k \in HeaderKeys |-> ""]

NewSink ==
  [header |-> NoHeader, wroteHeader |-> FALSE, status |-> 0, by |-> "",
   sent |-> NoHeader, body |-> <<>>, calls |-> 0, writes |-> 0, last |-> 0]

SinkHeaderSet(s, k, v) == [s EXCEPT !.header[k] = v]

SinkSendHeader(s, statusCode, by) ==
  IF s.wroteHeader THEN s
  ELSE [s EXCEPT !.wroteHeader = TRUE, !.status = statusCode, !.by = by,
                 !.sent = s.header]

SinkWriteHeader(s, statusCode, by) ==
  [SinkSendHeader(s, statusCode, by) EXCEPT !.calls = @ + 1, !.last = statusCode]

SinkWrite(s, b) ==
  [SinkSendHeader(s, StatusOK, "implicit") EXCEPT !.body = @ \o b,
                                                  !.writes = @ + 1]

\* What the client receives once the server has finished the response: a
\* sink nobody wrote to is answered with 200, the headers as they are then,
\* and no body.
ClientView(s) ==
  [status |-> IF s.wroteHeader THEN s.status ELSE StatusOK,
   header |-> IF s.wroteHeader THEN s.sent ELSE s.header,
   body |-> s.body]

\* ------------------------------------------------ bufferingResponseWriter
newBufferingResponseWriter == [statusCode |-> 0, buf |-> <<>>]

\* A Write that keeps only the bytes of the last call.
Write_keepsLastOnly(rw, b) == [rw EXCEPT !.buf = b]

Write(rw, b) == [rw EXCEPT !.buf = @ \o b]

\* A WriteHeader that keeps the first status it was given.
WriteHeader_firstWins(rw, statusCode) ==
  IF rw.statusCode = 0 THEN [rw EXCEPT !.statusCode = statusCode] ELSE rw

WriteHeader(rw, statusCode) == [rw EXCEPT !.statusCode = statusCode]

\* An emit that transfers the body before it writes the status.
emit_bodyFirst(rw, w) ==
  LET w1 == IF Len(rw.buf) > 0 THEN SinkWrite(w, rw.buf) ELSE w
      w2 == IF rw.statusCode # 0 THEN SinkWriteHeader(w1, rw.statusCode, "emit") ELSE w1
  IN [rw |-> [rw EXCEPT !.buf = <<>>], w |-> w2]

\* emit: the recorded status, if any, then the whole buffer in one Write
\* (bytes.Buffer.WriteTo writes nothing when the buffer is empty, and
\* leaves the buffer drained).
emit(rw, w) ==
  LET w1 == IF rw.statusCode # 0 THEN SinkWriteHeader(w, rw.statusCode, "emit") ELSE w
      w2 == IF Len(rw.buf) > 0 THEN SinkWrite(w1, rw.buf) ELSE w1
  IN [rw |-> [rw EXCEPT !.buf = <<>>], w |-> w2]

\* ------------------------------------------------------------- reporters
\* Bodies are sequences of chunks <<object, key, value>>: a byte string the
\* handler wrote is <<"raw", "", bytes>>, a JSON document is the sequence of
\* its members.
NoReport == <<>>

\* A toReport that fills field from the reason.
toReport_fieldFromReason(schemaErr) ==
  IF schemaErr = nil THEN NoReport
  ELSE <<[Reason |-> schemaErr[1].Reason, Field |-> schemaErr[1].Reason,
          Value |-> schemaErr[1].Value, Schema |-> schemaErr[1].Schema,
          OriginError |-> ""]>>

\* toReport: Reason, SchemaField, Value and Schema of the violation;
\* OriginError is left empty.
toReport(schemaErr) ==
  IF schemaErr = nil THEN NoReport
  ELSE <<[Reason |-> schemaErr[1].Reason, Field |-> schemaErr[1].SchemaField,
          Value |-> schemaErr[1].Value, Schema |-> schemaErr[1].Schema,
          OriginError |-> ""]>>

\* encoding/json of a *report under the given key: omitted when nil
\* (omitempty), origin omitted when empty.
EncodeReport(key, rep) ==
  IF rep = NoReport THEN <<>>
  ELSE << <<key, "reason", rep[1].Reason>>, <<key, "field", rep[1].Field>>,
          <<key, "value", rep[1].Value>>, <<key, "schema", rep[1].Schema>> >>
       \o (IF rep[1].OriginError # "" THEN << <<key, "origin", rep[1].OriginError>> >> ELSE <<>>)

\* encoding/json of the two payload types: rootError has json tags, the
\* payload of respondErrorJSON has none, so its keys are the field names.
EncodeJSON(payload) ==
  IF payload.shape = "rootError"
  THEN << <<"error", "", "{}">> >>
         \o EncodeReport("error.request", payload.Request)
         \o EncodeReport("error.response", payload.Response)
  ELSE << <<"Error", "Message", payload.Message>>, <<"Error", "Kind", payload.Kind>> >>

rootError(request, response) ==
  [shape |-> "rootError", Request |-> request, Response |-> response]

\* err.Error(): findRouteErr forwards to the error it wraps.
RECURSIVE ErrorString(_)
ErrorString(err) ==
  IF err[1].type = TFindRouteErr THEN ErrorString(Tail(err)) ELSE err[1].msg

respondJSON(w, statusCode, payload) ==
  SinkWrite(
    SinkWriteHeader(SinkHeaderSet(w, "content-type", "application/json"),
                    statusCode, "reporter"),
    EncodeJSON(payload))

respondErrorJSON(w, statusCode, err) ==
  respondJSON(w, statusCode,
    [shape |-> "payload", Message |-> ErrorString(err), Kind |-> err[1].type])

defaultReportFindRouteError(w, err) ==
  respondErrorJSON(w, StatusInternalServerError, err)

defaultReportRequestError(w, err) ==
  LET i == As(err, TRequestError)
      requestErr == SubSeq(err, i, Len(err))
      j == As(Below(err, i), TSchemaError)
      schemaErr == SubSeq(Below(err, i), j, Len(Below(err, i)))
  IN IF i = 0 THEN w
     ELSE IF j # 0
     THEN respondJSON(w, StatusBadRequest, rootError(toReport(schemaErr), NoReport))
     ELSE respondErrorJSON(w, StatusBadRequest, requestErr)

defaultReportResponseError(w, err) ==
  LET i == As(err, TResponseError)
      responseErr == SubSeq(err, i, Len(err))
      j == As(Below(err, i), TSchemaError)
      schemaErr == SubSeq(Below(err, i), j, Len(Below(err, i)))
  IN IF i = 0 THEN w
     ELSE IF j # 0
     THEN respondJSON(w, StatusInternalServerError, rootError(NoReport, toReport(schemaErr)))
     ELSE respondErrorJSON(w, StatusInternalServerError, responseErr)

\* The caller-supplied reporters of the tests: content-type text/plain, a
\* status of their own, and a line telling whether the error they were
\* given has the expected classification.
Bool(b) == IF b THEN "true" ELSE "false"

customWrite(w, statusCode, errTypeOK) ==
  SinkWrite(
    SinkWriteHeader(SinkHeaderSet(w, "content-type", "text/plain"),
                    statusCode, "reporter"),
    << <<"text", "errTypeOK", Bool(errTypeOK)>> >>)

routeErrReporter(w, r, err) ==
  IF r.path = "/unknown"
  THEN customWrite(w, StatusNotFound, Is(err, ErrPathNotFound))
  ELSE customWrite(w, StatusMethodNotAllowed, Is(err, ErrMethodNotAllowed))

reqErrReporter(w, r, err) ==
  customWrite(w, StatusBadRequest, As(err, TRequestError) # 0)

resErrReporter(w, r, err) ==
  customWrite(w, StatusInternalServerError, As(err, TResponseError) # 0)

\* MiddlewareOptions: a reporter field is TRUE when the caller supplied it.
\* TracerProvider is "nil" or the name of the provider the caller supplied.
OptionsSet ==
  [ReportFindRouteError : BOOLEAN,
   ReportRequestValidationError : BOOLEAN,
   ReportResponseValidationError : BOOLEAN,
   TracerProvider : {"nil", "tpExplicit"}]

reportFindRouteError(o, w, r, err) ==
  IF o.ReportFindRouteError THEN routeErrReporter(w, r, err)
  ELSE defaultReportFindRouteError(w, err)

reportReqError(o, w, r, err) ==
  IF o.ReportRequestValidationError THEN reqErrReporter(w, r, err)
  ELSE defaultReportRequestError(w, err)

\* A reportRespError that runs the default after the supplied reporter.
reportRespError_alsoDefault(o, w, r, err) ==
  IF o.ReportResponseValidationError
  THEN defaultReportResponseError(resErrReporter(w, r, err), err)
  ELSE defaultReportResponseError(w, err)

reportRespError(o, w, r, err) ==
  IF o.ReportResponseValidationError THEN resErrReporter(w, r, err)
  ELSE defaultReportResponseError(w, err)

\* findRouteErr.Unwrap: the error the wrapper holds.
Unwrap_keepsWrapper(e) == e

Unwrap(e) == Tail(e)

\* buildRequestValidationInputFromRequest: a router failure comes back
\* wrapped in a findRouteErr.
findRouteErr(err) == <<Node(TFindRouteErr, "findRouteErr", "")>> \o err

\* A builder that returns the router's error as it is.
buildRequestValidationInputFromRequest_unwrapped(r) == FindRoute(r)

buildRequestValidationInputFromRequest(r) ==
  IF FindRoute(r) # nil THEN findRouteErr(FindRoute(r)) ELSE nil

\* ---------------------------------------------------------------- tracing
\* What trace.SpanFromContext finds in a request context: whether the
\* span's SpanContext is valid, and the provider the span belongs to.  A
\* context without a span yields the no-op span.
Contexts ==
  {[valid |-> FALSE, provider |-> "noop"],
   [valid |-> TRUE, provider |-> "tpContext"]}

\* A getTracer that prefers the span of the context to the options.
getTracer_contextFirst(c, opts) ==
  IF c.valid THEN c.provider
  ELSE IF opts.TracerProvider # "nil" THEN opts.TracerProvider
  ELSE "global"

\* getTracer: the provider whose tracer the stage uses.
getTracer(c, opts) ==
  IF opts.TracerProvider = "nil"
  THEN (IF c.valid THEN c.provider ELSE "global")
  ELSE opts.TracerProvider

\* The context Start returns: it holds the new span.  The process-wide
\* default provider is the no-op one, whose spans keep the SpanContext
\* they found.
ContextWithSpan(c, provider) ==
  [valid |-> c.valid \/ provider # "global", provider |-> provider]

\* The trace of a request: span starts, recorded errors, writes of an
\* error response, span ends, in the order the code performs them.
Event(kind, stage, err, provider, c) ==
  [kind |-> kind, stage |-> stage, err |-> err, provider |-> provider, ctx |-> c]

NoContext == [valid |-> FALSE, provider |-> ""]

Start(ev, c, opts, stage) ==
  Append(ev, Event("start", stage, nil, getTracer(c, opts), c))

\* A RecordError that drops the error.
RecordError_dropped(ev, stage, err) == ev

RecordError(ev, stage, err) ==
  Append(ev, Event("error", stage, err, "", NoContext))

Responded(ev, stage, err) ==
  Append(ev, Event("respond", stage, err, "", NoContext))

End(ev, stage) ==
  Append(ev, Event("end", stage, nil, "", NoContext))

\* The deferred span.End calls that run when the handler has returned to,
\* or panicked through, the stages named.
EndAll(ev, stages) ==
  LET e1 == IF "ResponseValidation" \in stages THEN End(ev, "ResponseValidation") ELSE ev
  IN IF "RequestValidation" \in stages THEN End(e1, "RequestValidation") ELSE e1

\* ------------------------------------------------------------- the state
Modes == {"WithValidation", "WithRequestValidation", "WithResponseValidation"}

\* What the wrapped handler may pass to its writer.
HandlerHeaders == {<<"content-type", "application/json">>, <<"x-request-id", "42">>}
HandlerStatuses == {201, StatusInternalServerError}
HandlerBytes == {"a", "b"}

VARIABLES
  mode,          \* which constructor built the middleware
  options,       \* the MiddlewareOptions captured by the closures
  request,       \* the request being served
  pc,            \* where the request is in the chain
  w,             \* the real sink
  irw,           \* the bufferingResponseWriter of the response stage
  direct,        \* the sink the handler would have filled, written directly
  reqErr,        \* the result of ValidateRequest
  respErr,       \* the result of ValidateResponse
  respInput,     \* the ResponseValidationInput, once built
  reports,       \* the reporter invocations, in order
  handlerCalls,  \* how often the wrapped handler was invoked
  ncalls,        \* how many calls the handler has made on its writer
  emitted,       \* whether emit() was called
  ctx,           \* the context of the request, as handed down the chain
  events,        \* the trace of the request
  instances,     \* the middlewares WithValidation built from the options
  inflight,      \* the requests the server is serving at the same time
  heap           \* the bufferingResponseWriter objects that are allocated

vars ==
  <<mode, options, request, pc, w, irw, direct, reqErr, respErr, respInput,
    reports, handlerCalls, ncalls, emitted, ctx, events, instances, inflight,
    heap>>

\* The variables of the single request that is followed step by step, and
\* those of the requests that overlap.
seqvars ==
  <<mode, options, request, pc, w, irw, direct, reqErr, respErr, respInput,
    reports, handlerCalls, ncalls, emitted, ctx, events>>

concvars == <<instances, inflight, heap>>

HasRequestStage == mode \in {"WithValidation", "WithRequestValidation"}
HasResponseStage == mode \in {"WithValidation", "WithResponseValidation"}

\* A chain that looks the route up before it calls the handler, whatever
\* the constructor.
Entry_requestFirst(m) == "request"

\* The first stage of the chain the constructor built.
Entry(m) == IF m = "WithResponseValidation" THEN "response" ELSE "request"

FreshRequest(r) ==
  /\ request = r
  /\ pc = Entry(mode)
  /\ w = NewSink
  /\ irw = newBufferingResponseWriter
  /\ direct = NewSink
  /\ reqErr = nil
  /\ respErr = nil
  /\ respInput = <<>>
  /\ reports = <<>>
  /\ handlerCalls = 0
  /\ ncalls = 0
  /\ emitted = FALSE
  /\ events = <<>>

\* ------------------------------------------------- overlapping requests
\* WithValidation(options): the middleware is a closure over its own copy
\* of the options; it holds nothing else.
Instances == {1, 2}

\* A WithValidation that builds the middleware without the reporters.
WithValidation_dropsReporters(o) ==
  [options |-> [o EXCEPT !.ReportFindRouteError = FALSE,
                         !.ReportRequestValidationError = FALSE,
                         !.ReportResponseValidationError = FALSE]]

WithValidation(o) == [options |-> o]

\* The goroutines of the server, one per request in flight, and the
\* addresses a bufferingResponseWriter can be allocated at.
Slots == {1, 2}
Addrs == {1, 2}

\* Which middleware a goroutine's request goes through: the first
\* goroutine serves the first, the other serves either.
InstancesOf(s) == IF s = 1 THEN {1} ELSE Instances

\* The options the middlewares are built from: the defaults, or a reporter
\* of each category.
ConcOptions ==
  {o \in OptionsSet :
     /\ o.TracerProvider = "nil"
     /\ o.ReportFindRouteError = o.ReportRequestValidationError
     /\ o.ReportRequestValidationError = o.ReportResponseValidationError}

ConcRequests ==
  {[method |-> "GET", path |-> "/users/123"], [method |-> "GET", path |-> "/unknown"]}
ConcRequestErrors == {nil, <<RequestErrorNode, MissingID>>}
ConcResponseErrors == {nil, <<ResponseErrorNode, AgeNotInteger>>}

\* A request the server has accepted: its own sink, no capture buffer yet;
\* own is what the handler of this request has passed to its writer.
NewSlot(r, i) ==
  [pc |-> "request", inst |-> i, request |-> r, w |-> NewSink, irw |-> 0,
   own |-> newBufferingResponseWriter, reqErr |-> nil, respErr |-> nil,
   respInput |-> <<>>, n |-> 0, emitted |-> FALSE]

\* An address that holds no object: its w field refers to no sink.
Free == [rw |-> newBufferingResponseWriter, w |-> 0]

\* An allocation that hands out the same object to every request.
alloc_sharedObject(h) == 1

\* &bufferingResponseWriter{...}: a new object, at an address no live
\* object has.
alloc(h) == CHOOSE a \in Addrs : h[a] = Free /\ \A b \in Addrs : h[b] = Free => a <= b

Init ==
  /\ mode \in Modes
  /\ options \in OptionsSet
  /\ ctx \in Contexts
  /\ \E r \in Requests : FreshRequest(r)
  /\ instances = [i \in Instances |-> WithValidation(options)]
  /\ inflight = [s \in Slots |-> NewSlot(CHOOSE r \in ConcRequests : r.path = "/users/123", s)]
  /\ heap = [a \in Addrs |-> Free]

Report(category, custom, err) ==
  [category |-> category, custom |-> custom, err |-> err]

\* A request stage that calls next although ValidateRequest failed.
RequestStageNext_ignoresValidation(m, err, verr) ==
  IF err # nil THEN "done"
  ELSE IF m = "WithValidation" THEN "response"
  ELSE "handler"

\* Where next.ServeHTTP of the request stage leads: into the response
\* stage under WithValidation, into the wrapped handler otherwise.
RequestStageNext(m, err, verr) ==
  IF err # nil \/ verr # nil THEN "done"
  ELSE IF m = "WithValidation" THEN "response"
  ELSE "handler"

\* The handler function of WithRequestValidation, up to its call of next.
RequestValidation ==
  /\ pc = "request"
  /\ LET err == buildRequestValidationInputFromRequest(request)
         i == As(err, TFindRouteErr)
         actualErr == Unwrap(SubSeq(err, i, Len(err)))
         stage == "RequestValidation"
         started == Start(events, ctx, options, stage)
     IN \E verr \in RequestErrors :
          /\ pc' = RequestStageNext(mode, err, IF err = nil THEN verr ELSE nil)
          /\ ctx' = ContextWithSpan(ctx, getTracer(ctx, options))
          /\ IF i # 0
             THEN /\ w' = reportFindRouteError(options, w, request, actualErr)
                  /\ reports' = Append(reports,
                       Report("route", options.ReportFindRouteError, actualErr))
                  /\ events' = End(Responded(RecordError(started, stage, actualErr),
                                             stage, actualErr), stage)
                  /\ verr = nil
                  /\ UNCHANGED reqErr
             ELSE IF err # nil
             THEN /\ w' = respondErrorJSON(w, StatusInternalServerError, err)
                  /\ events' = End(Responded(RecordError(started, stage, err),
                                             stage, err), stage)
                  /\ verr = nil
                  /\ UNCHANGED <<reports, reqErr>>
             ELSE IF verr # nil
             THEN /\ reqErr' = verr
                  /\ w' = reportReqError(options, w, request, verr)
                  /\ reports' = Append(reports,
                       Report("request", options.ReportRequestValidationError, verr))
                  /\ events' = End(Responded(RecordError(started, stage, verr),
                                             stage, verr), stage)
             ELSE /\ reqErr' = verr
                  /\ events' = started
                  /\ UNCHANGED <<w, reports>>
          /\ handlerCalls' = IF pc' = "handler" THEN handlerCalls + 1 ELSE handlerCalls
  /\ UNCHANGED concvars
  /\ UNCHANGED <<mode, options, request, irw, direct, respErr, respInput, ncalls, emitted>>

\* A response stage that calls next twice.
ResponseValidationEnter_callsNextTwice ==
  /\ pc = "response"
  /\ irw' = newBufferingResponseWriter
  /\ pc' = "handler"
  /\ handlerCalls' = handlerCalls + 2
  /\ events' = Start(events, ctx, options, "ResponseValidation")
  /\ ctx' = ContextWithSpan(ctx, getTracer(ctx, options))
  /\ UNCHANGED concvars
  /\ UNCHANGED <<mode, options, request, w, direct, reqErr, respErr, respInput,
                 reports, ncalls, emitted>>

\* The handler function of WithResponseValidation, up to its call of next:
\* a new capture buffer around the sink, then the wrapped handler.
ResponseValidationEnter ==
  /\ pc = "response"
  /\ irw' = newBufferingResponseWriter
  /\ pc' = "handler"
  /\ handlerCalls' = handlerCalls + 1
  /\ events' = Start(events, ctx, options, "ResponseValidation")
  /\ ctx' = ContextWithSpan(ctx, getTracer(ctx, options))
  /\ UNCHANGED concvars
  /\ UNCHANGED <<mode, options, request, w, direct, reqErr, respErr, respInput,
                 reports, ncalls, emitted>>

\* A capture buffer with a header map of its own, which nobody reads.
HandlerSetHeader_buffered ==
  /\ pc = "handler"
  /\ ncalls < MaxCalls
  /\ \E h \in HandlerHeaders :
       /\ w' = IF HasResponseStage THEN w ELSE SinkHeaderSet(w, h[1], h[2])
       /\ direct' = SinkHeaderSet(direct, h[1], h[2])
  /\ ncalls' = ncalls + 1
  /\ UNCHANGED concvars
  /\ UNCHANGED <<mode, options, request, pc, irw, reqErr, respErr, respInput,
                 reports, handlerCalls, emitted, ctx, events>>

\* The wrapped handler calls Header().Set on the writer it was given: the
\* capture buffer hands out the header map of the real sink.
HandlerSetHeader ==
  /\ pc = "handler"
  /\ ncalls < MaxCalls
  /\ \E h \in HandlerHeaders :
       /\ w' = SinkHeaderSet(w, h[1], h[2])
       /\ direct' = SinkHeaderSet(direct, h[1], h[2])
  /\ ncalls' = ncalls + 1
  /\ UNCHANGED concvars
  /\ UNCHANGED <<mode, options, request, pc, irw, reqErr, respErr, respInput,
                 reports, handlerCalls, emitted, ctx, events>>

\* The wrapped handler calls WriteHeader on the writer it was given.
HandlerWriteHeader ==
  /\ pc = "handler"
  /\ ncalls < MaxCalls
  /\ \E statusCode \in HandlerStatuses :
       /\ IF HasResponseStage
          THEN irw' = WriteHeader(irw, statusCode) /\ UNCHANGED w
          ELSE w' = SinkWriteHeader(w, statusCode, "handler") /\ UNCHANGED irw
       /\ direct' = SinkWriteHeader(direct, statusCode, "handler")
  /\ ncalls' = ncalls + 1
  /\ UNCHANGED concvars
  /\ UNCHANGED <<mode, options, request, pc, reqErr, respErr, respInput,
                 reports, handlerCalls, emitted, ctx, events>>

\* The wrapped handler calls Write on the writer it was given.
HandlerWrite ==
  /\ pc = "handler"
  /\ ncalls < MaxCalls
  /\ \E b \in HandlerBytes :
       /\ IF HasResponseStage
          THEN irw' = Write(irw, << <<"raw", "", b>> >>) /\ UNCHANGED w
          ELSE w' = SinkWrite(w, << <<"raw", "", b>> >>) /\ UNCHANGED irw
       /\ direct' = SinkWrite(direct, << <<"raw", "", b>> >>)
  /\ ncalls' = ncalls + 1
  /\ UNCHANGED concvars
  /\ UNCHANGED <<mode, options, request, pc, reqErr, respErr, respInput,
                 reports, handlerCalls, emitted, ctx, events>>

\* The stages of the chain the constructor built.
Stages(m) ==
  IF m = "WithValidation" THEN {"RequestValidation", "ResponseValidation"}
  ELSE IF m = "WithRequestValidation" THEN {"RequestValidation"}
  ELSE {"ResponseValidation"}

\* A response stage that returns as soon as the handler has.
HandlerReturn_skipsValidation ==
  /\ pc = "handler"
  /\ pc' = "done"
  /\ events' = EndAll(events, Stages(mode))
  /\ UNCHANGED concvars
  /\ UNCHANGED <<mode, options, request, w, irw, direct, reqErr, respErr,
                 respInput, reports, handlerCalls, ncalls, emitted, ctx>>

\* The wrapped handler returns to the stage that called it; when that is
\* the request stage, the stage returns and its span ends.
HandlerReturn ==
  /\ pc = "handler"
  /\ pc' = IF HasResponseStage THEN "validate" ELSE "done"
  /\ events' = IF HasResponseStage THEN events ELSE EndAll(events, Stages(mode))
  /\ UNCHANGED concvars
  /\ UNCHANGED <<mode, options, request, w, irw, direct, reqErr, respErr,
                 respInput, reports, handlerCalls, ncalls, emitted, ctx>>

\* The wrapped handler panics: the stages unwind, their deferred span.End
\* calls run, and nothing more is written.
HandlerPanic ==
  /\ pc = "handler"
  /\ pc' = "panicked"
  /\ events' = EndAll(events, Stages(mode))
  /\ UNCHANGED concvars
  /\ UNCHANGED <<mode, options, request, w, irw, direct, reqErr, respErr,
                 respInput, reports, handlerCalls, ncalls, emitted, ctx>>

\* A ResponseValidationInput that takes the recorded status as it is.
ResponseValidationInput_recordedStatus(rw, sink) ==
  [Status |-> rw.statusCode, Header |-> sink.header, Body |-> rw.buf]

\* The ResponseValidationInput: the recorded status, 200 when none was
\* recorded, the header map of the real sink, the bytes of the buffer.
ResponseValidationInput(rw, sink) ==
  [Status |-> IF rw.statusCode = 0 THEN StatusOK ELSE rw.statusCode,
   Header |-> sink.header,
   Body |-> rw.buf]

\* A response stage that falls through to emit() after a routing failure.
ResponseValidation_emitsOnRouteFailure ==
  /\ pc = "validate"
  /\ LET err == buildRequestValidationInputFromRequest(request)
         i == As(err, TFindRouteErr)
         actualErr == Unwrap(SubSeq(err, i, Len(err)))
         stage == "ResponseValidation"
     IN \E verr \in ResponseErrors :
          IF i # 0
          THEN /\ w' = emit(irw, reportFindRouteError(options, w, request, actualErr)).w
               /\ irw' = emit(irw, w).rw
               /\ emitted' = TRUE
               /\ reports' = Append(reports,
                    Report("route", options.ReportFindRouteError, actualErr))
               /\ events' = EndAll(Responded(RecordError(events, stage, actualErr),
                                             stage, actualErr), Stages(mode))
               /\ verr = nil
               /\ UNCHANGED <<respErr, respInput>>
          ELSE IF err # nil
          THEN /\ w' = respondErrorJSON(w, StatusInternalServerError, err)
               /\ events' = EndAll(Responded(RecordError(events, stage, err),
                                             stage, err), Stages(mode))
               /\ verr = nil
               /\ UNCHANGED <<irw, respErr, respInput, reports, emitted>>
          ELSE /\ respInput' = <<ResponseValidationInput(irw, w)>>
               /\ respErr' = verr
               /\ IF verr # nil
                  THEN /\ w' = reportRespError(options, w, request, verr)
                       /\ reports' = Append(reports,
                            Report("response", options.ReportResponseValidationError, verr))
                       /\ events' = EndAll(Responded(RecordError(events, stage, verr),
                                                     stage, verr), Stages(mode))
                       /\ UNCHANGED <<irw, emitted>>
                  ELSE /\ w' = emit(irw, w).w
                       /\ irw' = emit(irw, w).rw
                       /\ emitted' = TRUE
                       /\ events' = EndAll(events, Stages(mode))
                       /\ UNCHANGED reports
  /\ pc' = "done"
  /\ UNCHANGED concvars
  /\ UNCHANGED <<mode, options, request, direct, reqErr, handlerCalls, ncalls, ctx>>

\* The handler function of WithResponseValidation after next has returned.
ResponseValidation ==
  /\ pc = "validate"
  /\ LET err == buildRequestValidationInputFromRequest(request)
         i == As(err, TFindRouteErr)
         actualErr == Unwrap(SubSeq(err, i, Len(err)))
         stage == "ResponseValidation"
     IN \E verr \in ResponseErrors :
          IF i # 0
          THEN /\ w' = reportFindRouteError(options, w, request, actualErr)
               /\ reports' = Append(reports,
                    Report("route", options.ReportFindRouteError, actualErr))
               /\ events' = EndAll(Responded(RecordError(events, stage, actualErr),
                                             stage, actualErr), Stages(mode))
               /\ verr = nil
               /\ UNCHANGED <<irw, respErr, respInput, emitted>>
          ELSE IF err # nil
          THEN /\ w' = respondErrorJSON(w, StatusInternalServerError, err)
               /\ events' = EndAll(Responded(RecordError(events, stage, err),
                                             stage, err), Stages(mode))
               /\ verr = nil
               /\ UNCHANGED <<irw, respErr, respInput, reports, emitted>>
          ELSE /\ respInput' = <<ResponseValidationInput(irw, w)>>
               /\ respErr' = verr
               /\ IF verr # nil
                  THEN /\ w' = reportRespError(options, w, request, verr)
                       /\ reports' = Append(reports,
                            Report("response", options.ReportResponseValidationError, verr))
                       /\ events' = EndAll(Responded(RecordError(events, stage, verr),
                                                     stage, verr), Stages(mode))
                       /\ UNCHANGED <<irw, emitted>>
                  ELSE /\ w' = emit(irw, w).w
                       /\ irw' = emit(irw, w).rw
                       /\ emitted' = TRUE
                       /\ events' = EndAll(events, Stages(mode))
                       /\ UNCHANGED reports
  /\ pc' = "done"
  /\ UNCHANGED concvars
  /\ UNCHANGED <<mode, options, request, direct, reqErr, handlerCalls, ncalls, ctx>>

\* The server has finished the response: the sink, the capture buffer and
\* everything else that belonged to the request are gone.
Finish ==
  /\ pc \in {"done", "panicked"}
  /\ pc' = "idle"
  /\ w' = NewSink
  /\ irw' = newBufferingResponseWriter
  /\ direct' = NewSink
  /\ reqErr' = nil
  /\ respErr' = nil
  /\ respInput' = <<>>
  /\ reports' = <<>>
  /\ handlerCalls' = 0
  /\ ncalls' = 0
  /\ emitted' = FALSE
  /\ events' = <<>>
  /\ UNCHANGED concvars
  /\ UNCHANGED <<mode, options, request, ctx>>

\* The server takes the next request, with a sink of its own; the
\* middleware and the options it captured stay.
NewRequest ==
  /\ pc = "idle"
  /\ request' \in Requests
  /\ ctx' \in Contexts
  /\ pc' = Entry(mode)
  /\ UNCHANGED concvars
  /\ UNCHANGED <<mode, options, w, irw, direct, reqErr, respErr, respInput,
                 reports, handlerCalls, ncalls, emitted, events>>

Next ==
  \/ RequestValidation
  \/ ResponseValidationEnter
  \/ HandlerSetHeader
  \/ HandlerWriteHeader
  \/ HandlerWrite
  \/ HandlerReturn
  \/ HandlerPanic
  \/ ResponseValidation
  \/ Finish
  \/ NewRequest

Spec == Init /\ [][Next]_vars

\* -------------------------------------- requests served at the same time
\* Two requests in flight on middlewares built by WithValidation from the
\* same options; every step is one goroutine's, in any order.
InitConc ==
  /\ mode = "WithValidation"
  /\ options \in ConcOptions
  /\ ctx = [valid |-> FALSE, provider |-> "noop"]
  /\ request = CHOOSE r \in ConcRequests : r.path = "/users/123"
  /\ pc = "idle"
  /\ w = NewSink
  /\ irw = newBufferingResponseWriter
  /\ direct = NewSink
  /\ reqErr = nil
  /\ respErr = nil
  /\ respInput = <<>>
  /\ reports = <<>>
  /\ handlerCalls = 0
  /\ ncalls = 0
  /\ emitted = FALSE
  /\ events = <<>>
  /\ instances = [i \in Instances |-> WithValidation(options)]
  /\ \E f \in [Slots -> ConcRequests], g \in [Slots -> Instances] :
       /\ \A s \in Slots : g[s] \in InstancesOf(s)
       /\ inflight = [s \in Slots |-> NewSlot(f[s], g[s])]
  /\ heap = [a \in Addrs |-> Free]

\* The request stage of the middleware the request of goroutine s goes
\* through.
ConcRequestValidation(s) ==
  /\ inflight[s].pc = "request"
  /\ LET L == inflight[s]
         o == instances[L.inst].options
         err == buildRequestValidationInputFromRequest(L.request)
         i == As(err, TFindRouteErr)
         actualErr == Unwrap(SubSeq(err, i, Len(err)))
     IN \E verr \in ConcRequestErrors :
          /\ err # nil => verr = nil
          /\ inflight' = [inflight EXCEPT ![s] =
               IF i # 0
               THEN [L EXCEPT !.w = reportFindRouteError(o, L.w, L.request, actualErr),
                              !.pc = "done"]
               ELSE IF err # nil
               THEN [L EXCEPT !.w = respondErrorJSON(L.w, StatusInternalServerError, err),
                              !.pc = "done"]
               ELSE IF verr # nil
               THEN [L EXCEPT !.w = reportReqError(o, L.w, L.request, verr),
                              !.reqErr = verr, !.pc = "done"]
               ELSE [L EXCEPT !.pc = "response"]]
  /\ UNCHANGED <<instances, heap>>
  /\ UNCHANGED seqvars

\* The response stage, up to its call of next: a bufferingResponseWriter
\* is allocated around the sink of this request.
ConcResponseValidationEnter(s) ==
  /\ inflight[s].pc = "response"
  /\ LET a == alloc(heap)
     IN /\ heap' = [heap EXCEPT ![a] = [rw |-> newBufferingResponseWriter, w |-> s]]
        /\ inflight' = [inflight EXCEPT ![s].irw = a, ![s].pc = "handler"]
  /\ UNCHANGED instances
  /\ UNCHANGED seqvars

ConcHandlerWriteHeader(s) ==
  /\ inflight[s].pc = "handler"
  /\ inflight[s].n < ConcCalls
  /\ \E statusCode \in HandlerStatuses :
       /\ heap' = [heap EXCEPT ![inflight[s].irw].rw = WriteHeader(@, statusCode)]
       /\ inflight' = [inflight EXCEPT ![s].own = WriteHeader(@, statusCode),
                                       ![s].n = @ + 1]
  /\ UNCHANGED instances
  /\ UNCHANGED seqvars

ConcHandlerWrite(s) ==
  /\ inflight[s].pc = "handler"
  /\ inflight[s].n < ConcCalls
  /\ \E b \in HandlerBytes :
       /\ heap' = [heap EXCEPT ![inflight[s].irw].rw = Write(@, << <<"raw", "", b>> >>)]
       /\ inflight' = [inflight EXCEPT ![s].own = Write(@, << <<"raw", "", b>> >>),
                                       ![s].n = @ + 1]
  /\ UNCHANGED instances
  /\ UNCHANGED seqvars

ConcHandlerReturn(s) ==
  /\ inflight[s].pc = "handler"
  /\ inflight' = [inflight EXCEPT ![s].pc = "validate"]
  /\ UNCHANGED <<instances, heap>>
  /\ UNCHANGED seqvars

ConcHandlerPanic(s) ==
  /\ inflight[s].pc = "handler"
  /\ inflight' = [inflight EXCEPT ![s].pc = "panicked"]
  /\ UNCHANGED <<instances, heap>>
  /\ UNCHANGED seqvars

\* The response stage after next has returned. The reporters get the sink
\* the stage was called with; emit() writes to the sink the
\* bufferingResponseWriter holds.
ConcResponseValidation(s) ==
  /\ inflight[s].pc = "validate"
  /\ LET L == inflight[s]
         o == instances[L.inst].options
         a == L.irw
         t == heap[a].w
         err == buildRequestValidationInputFromRequest(L.request)
         i == As(err, TFindRouteErr)
         actualErr == Unwrap(SubSeq(err, i, Len(err)))
         input == ResponseValidationInput(heap[a].rw, inflight[t].w)
         e == emit(heap[a].rw, inflight[t].w)
     IN \E verr \in ConcResponseErrors :
          /\ err # nil => verr = nil
          /\ IF i # 0
             THEN /\ inflight' = [inflight EXCEPT
                       ![s].w = reportFindRouteError(o, L.w, L.request, actualErr),
                       ![s].pc = "done"]
                  /\ UNCHANGED heap
             ELSE IF err # nil
             THEN /\ inflight' = [inflight EXCEPT
                       ![s].w = respondErrorJSON(L.w, StatusInternalServerError, err),
                       ![s].pc = "done"]
                  /\ UNCHANGED heap
             ELSE IF verr # nil
             THEN /\ inflight' = [inflight EXCEPT
                       ![s].w = reportRespError(o, L.w, L.request, verr),
                       ![s].respInput = <<input>>,
                       ![s].respErr = verr,
                       ![s].pc = "done"]
                  /\ UNCHANGED heap
             ELSE /\ inflight' = [inflight EXCEPT
                       ![t].w = e.w,
                       ![s].respInput = <<input>>,
                       ![s].emitted = TRUE,
                       ![s].pc = "done"]
                  /\ heap' = [heap EXCEPT ![a].rw = e.rw]
  /\ UNCHANGED instances
  /\ UNCHANGED seqvars

\* The server has finished the response of goroutine s: the objects of the
\* request are garbage, and the goroutine serves another request.
ConcFinish(s) ==
  /\ inflight[s].pc \in {"done", "panicked"}
  /\ heap' = [a \in Addrs |-> IF a = inflight[s].irw THEN Free ELSE heap[a]]
  /\ \E r \in ConcRequests, i \in InstancesOf(s) :
       inflight' = [inflight EXCEPT ![s] = NewSlot(r, i)]
  /\ UNCHANGED instances
  /\ UNCHANGED seqvars

NextConc ==
  \/ \E s \in Slots : ConcRequestValidation(s)
  \/ \E s \in Slots : ConcResponseValidationEnter(s)
  \/ \E s \in Slots : ConcHandlerWriteHeader(s)
  \/ \E s \in Slots : ConcHandlerWrite(s)
  \/ \E s \in Slots : ConcHandlerReturn(s)
  \/ \E s \in Slots : ConcHandlerPanic(s)
  \/ \E s \in Slots : ConcResponseValidation(s)
  \/ \E s \in Slots : ConcFinish(s)

SpecConc == InitConc /\ [][NextConc]_vars

\* ---------------------------------------------------------------- claims
RouteFails == FindRoute(request) # nil

\* C1: under WithRequestValidation and WithValidation the wrapped handler
\* is invoked only once route lookup and ValidateRequest have both
\* succeeded; when either fails the handler is never invoked and exactly
\* that failure is handed to its reporter.
C1_HandlerGatedByRequestValidation ==
  HasRequestStage =>
    /\ pc = "request" => handlerCalls = 0
    /\ handlerCalls > 0 => ~RouteFails /\ reqErr = nil
    /\ (pc = "done" /\ (RouteFails \/ reqErr # nil)) =>
         /\ handlerCalls = 0
         /\ Len(reports) = 1
         /\ reports[1].category = (IF RouteFails THEN "route" ELSE "request")
         /\ reports[1].err = (IF RouteFails THEN FindRoute(request) ELSE reqErr)

C1_Witness ==
  /\ HasRequestStage
  /\ pc = "done"
  /\ reqErr # nil
  /\ handlerCalls = 0
  /\ Len(reports) = 1

\* C5: under WithValidation the wrapped handler never runs more than once
\* for a request, and it has run exactly once when a request that matches
\* an operation and passes request validation has left the chain.
C5_HandlerRunsExactlyOnce ==
  mode = "WithValidation" =>
    /\ handlerCalls <= 1
    /\ (pc \in {"validate", "done", "panicked"} /\ ~RouteFails /\ reqErr = nil) =>
         handlerCalls = 1

C5_Witness ==
  /\ mode = "WithValidation"
  /\ pc = "done"
  /\ ~RouteFails
  /\ reqErr = nil
  /\ handlerCalls = 1

\* C6: when route lookup fails, the default reporter answers 500 with the
\* generic error body; a supplied ReportFindRouteError is invoked instead
\* and is given the router's own error (ErrPathNotFound for an unregistered
\* path, ErrMethodNotAllowed for a known path with another method), not the
\* findRouteErr wrapper.
C6_RouteFailureReported ==
  (pc = "done" /\ RouteFails) =>
    /\ Len(reports) = 1
    /\ reports[1].category = "route"
    /\ reports[1].custom = options.ReportFindRouteError
    /\ reports[1].err = FindRoute(request)
    /\ \A i \in 1..Len(reports[1].err) : reports[1].err[i].type # TFindRouteErr
    /\ IF request.path = "/unknown"
       THEN reports[1].err[1].id = "ErrPathNotFound"
       ELSE reports[1].err[1].id = "ErrMethodNotAllowed"
    /\ w.wroteHeader
    /\ IF options.ReportFindRouteError
       THEN /\ w.status = (IF request.path = "/unknown" THEN StatusNotFound
                           ELSE StatusMethodNotAllowed)
            /\ w.body = << <<"text", "errTypeOK", "true">> >>
       ELSE /\ w.status = StatusInternalServerError
            /\ w.body = << <<"Error", "Message", FindRoute(request)[1].msg>>,
                           <<"Error", "Kind", TRouteError>> >>

C6_Witness ==
  /\ pc = "done"
  /\ RouteFails
  /\ options.ReportFindRouteError
  /\ request.path = "/users"
  /\ Len(reports) = 1

\* The response stage has run for this request and has returned normally.
ResponseStageDone == HasResponseStage /\ pc = "done" /\ handlerCalls > 0

\* The members of a JSON body.
JSONHas(body, object) == \E i \in 1..Len(body) : body[i][1] = object

JSONGet(body, object, key) ==
  LET S == {i \in 1..Len(body) : body[i][1] = object /\ body[i][2] = key}
  IN IF S = {} THEN "<absent>" ELSE body[CHOOSE i \in S : TRUE][3]

IsGenericBody(body) ==
  /\ Len(body) = 2
  /\ body[1][1] = "Error" /\ body[1][2] = "Message"
  /\ body[2][1] = "Error" /\ body[2][2] = "Kind"

\* The error holds a SchemaError somewhere.
CarriesViolation(err) == \E i \in 1..Len(err) : err[i].type = TSchemaError

\* A failure of kind t (RequestError, ResponseError) that holds a SchemaError.
FailureWithViolation(err, t) ==
  \E i, j \in 1..Len(err) : i < j /\ err[i].type = t /\ err[j].type = TSchemaError

\* The outermost violation such a failure holds.
ViolationOf(err, t) ==
  LET i == CHOOSE i \in 1..Len(err) :
             err[i].type = t /\ \A k \in 1..(i - 1) : err[k].type # t
      j == CHOOSE j \in (i + 1)..Len(err) :
             err[j].type = TSchemaError
               /\ \A k \in (i + 1)..(j - 1) : err[k].type # TSchemaError
  IN err[j]

\* C2: when ValidateResponse fails, no status and no body byte the handler
\* wrote reaches the real sink; the sink holds only what the
\* response-failure reporter wrote, status 500 with the default reporter.
C2_HandlerOutputNeverObserved ==
  (ResponseStageDone /\ respErr # nil) =>
    /\ ~emitted
    /\ \A i \in 1..Len(w.body) : w.body[i][1] # "raw"
    /\ w.by \notin {"handler", "emit", "implicit"}
    /\ ~options.ReportResponseValidationError =>
         w.wroteHeader /\ w.status = StatusInternalServerError

\* C3: when ValidateResponse succeeds, the client receives the status, the
\* headers and the body it would have received had the handler written to
\* the real sink directly, whatever calls the handler made.
C3_RoundTripThroughCaptureBuffer ==
  (ResponseStageDone /\ ~RouteFails /\ respErr = nil) =>
    emitted /\ ClientView(w) = ClientView(direct)

\* C4: a request the response stage has handled ends in exactly one of two
\* ways: validation succeeded and the sink received the captured status and
\* body through emit(), or routing or validation failed and the sink
\* received a replacement error status and body.
C4_Passed ==
  /\ ~RouteFails
  /\ respErr = nil
  /\ emitted
  /\ reports = <<>>
  /\ ClientView(w).status = respInput[1].Status
  /\ w.body = respInput[1].Body

C4_Replaced ==
  /\ RouteFails \/ respErr # nil
  /\ ~emitted
  /\ w.wroteHeader
  /\ w.by = "reporter"
  /\ w.body # <<>>
  /\ \A i \in 1..Len(w.body) : w.body[i][1] # "raw"

C4_EmitXorReplace ==
  ResponseStageDone => (C4_Passed /\ ~C4_Replaced) \/ (C4_Replaced /\ ~C4_Passed)

\* C7: with the default reporters every failure of route lookup,
\* ValidateRequest or ValidateResponse, whatever its kind, leaves an
\* explicit status and a non-empty body on the real sink.
C7_EveryFailureAnswered ==
  (pc = "done" /\ Len(reports) > 0 /\ ~reports[1].custom) =>
    /\ w.wroteHeader
    /\ w.by = "reporter"
    /\ w.body # <<>>

\* C8: with the default request-failure reporter every ValidateRequest
\* error that holds no field-level violation, of the RequestError kind or
\* not, is answered 400 with the generic body.
C8_GenericRequestFailure ==
  (pc = "done" /\ reqErr # nil /\ ~CarriesViolation(reqErr)
     /\ ~options.ReportRequestValidationError) =>
    /\ w.wroteHeader
    /\ w.status = StatusBadRequest
    /\ IsGenericBody(w.body)

\* C9: with the default response-failure reporter every ValidateResponse
\* error that holds no field-level violation, of the ResponseError kind or
\* not, is answered 500 with the generic body.
C9_GenericResponseFailure ==
  (pc = "done" /\ respErr # nil /\ ~CarriesViolation(respErr)
     /\ ~options.ReportResponseValidationError) =>
    /\ w.wroteHeader
    /\ w.status = StatusInternalServerError
    /\ IsGenericBody(w.body)

\* C10: with the default reporters a request failure holding a field-level
\* violation is answered 400 with error.request set and error.response
\* absent, a response failure holding one is answered 500 with
\* error.response set and error.request absent; reason, field, value and
\* schema are those of the violation; no body has both keys.
ReportIs(body, object, v) ==
  /\ JSONGet(body, object, "reason") = v.Reason
  /\ JSONGet(body, object, "field") = v.SchemaField
  /\ JSONGet(body, object, "value") = v.Value
  /\ JSONGet(body, object, "schema") = v.Schema

C10_FieldLevelReports ==
  /\ ~(JSONHas(w.body, "error.request") /\ JSONHas(w.body, "error.response"))
  /\ (pc = "done" /\ FailureWithViolation(reqErr, TRequestError)
        /\ ~options.ReportRequestValidationError) =>
       /\ w.wroteHeader /\ w.status = StatusBadRequest
       /\ JSONHas(w.body, "error.request")
       /\ ~JSONHas(w.body, "error.response")
       /\ ReportIs(w.body, "error.request", ViolationOf(reqErr, TRequestError))
  /\ (pc = "done" /\ FailureWithViolation(respErr, TResponseError)
        /\ ~options.ReportResponseValidationError) =>
       /\ w.wroteHeader /\ w.status = StatusInternalServerError
       /\ JSONHas(w.body, "error.response")
       /\ ~JSONHas(w.body, "error.request")
       /\ ReportIs(w.body, "error.response", ViolationOf(respErr, TResponseError))

C10_Witness ==
  /\ pc = "done"
  /\ ~options.ReportResponseValidationError
  /\ respErr = <<ResponseErrorNode, MissingID, AgeNotInteger>>
  /\ JSONGet(w.body, "error.response", "field") = "required"
  /\ Len(irw.buf) > 0

\* C11: with the default reporters the error response of a failed request
\* is written to the real sink exactly once, with content-type
\* application/json; no reporter category is invoked more than once for a
\* request, under WithValidation too.
ReporterCalls(category) ==
  Cardinality({i \in 1..Len(reports) : reports[i].category = category})

C11_ErrorWrittenExactlyOnce ==
  /\ \A category \in {"route", "request", "response"} : ReporterCalls(category) <= 1
  /\ (pc = "done" /\ Len(reports) > 0 /\ ~reports[1].custom) =>
       /\ w.calls = 1
       /\ w.writes = 1
       /\ w.wroteHeader
       /\ w.sent["content-type"] = "application/json"

\* C12: a failure is handled by the supplied reporter of its category when
\* the options hold one, which then receives the real sink, the request and
\* the error while the default writes nothing, and by the default
\* otherwise; the options the middleware captured never change.
SuppliedFor(category) ==
  IF category = "route" THEN options.ReportFindRouteError
  ELSE IF category = "request" THEN options.ReportRequestValidationError
  ELSE options.ReportResponseValidationError

SuppliedStatus(category) ==
  IF category = "route"
  THEN (IF request.path = "/unknown" THEN StatusNotFound ELSE StatusMethodNotAllowed)
  ELSE IF category = "request" THEN StatusBadRequest
  ELSE StatusInternalServerError

HasKind(err, category) ==
  \/ category = "route"
  \/ category = "request" /\ \E i \in 1..Len(err) : err[i].type = TRequestError
  \/ category = "response" /\ \E i \in 1..Len(err) : err[i].type = TResponseError

C12_OneReporterHandles ==
  (pc = "done" /\ Len(reports) > 0) =>
    LET category == reports[1].category
        err == reports[1].err
    IN /\ reports[1].custom = SuppliedFor(category)
       /\ IF SuppliedFor(category)
          THEN /\ w.calls = 1 /\ w.writes = 1
               /\ w.sent["content-type"] = "text/plain"
               /\ w.status = SuppliedStatus(category)
               /\ w.body = << <<"text", "errTypeOK",
                                IF HasKind(err, category) THEN "true" ELSE "false">> >>
          ELSE /\ \A i \in 1..Len(w.body) : w.body[i][1] # "text"
               /\ w.wroteHeader =>
                    /\ w.sent["content-type"] = "application/json"
                    /\ w.status = (IF category = "request" THEN StatusBadRequest
                                   ELSE StatusInternalServerError)

C12_ReporterChoiceFixed ==
  /\ []C12_OneReporterHandles
  /\ [][options' = options /\ mode' = mode]_vars

C12_Witness ==
  /\ pc = "done"
  /\ Len(reports) = 1
  /\ reports[1].category = "response"
  /\ reports[1].custom
  /\ w.status = StatusInternalServerError
  /\ Len(irw.buf) > 0

\* C13: emit() writes the recorded status, if any, and then the whole
\* accumulated body; it is called only once ValidateResponse has succeeded,
\* and never when routing or response validation failed.
C13_EmitOnlyOnSuccess ==
  /\ emitted =>
       /\ pc = "done" /\ ~RouteFails /\ respErr = nil /\ respInput # <<>>
       /\ irw.statusCode # 0 => w.status = irw.statusCode /\ w.by = "emit"
       /\ w.body = respInput[1].Body
       /\ irw.buf = <<>>
  /\ (pc = "done" /\ (RouteFails \/ respErr # nil)) => ~emitted

C13_Witness ==
  /\ emitted
  /\ irw.statusCode = StatusInternalServerError
  /\ w.status = StatusInternalServerError
  /\ Len(w.body) = 2

\* C14: while the wrapped handler runs under the response stage, no status
\* and no body byte reaches the real sink; WriteHeader only records the
\* code, and each Write appends all its bytes to the buffer.
C14_NothingReachesSinkDuringHandler ==
  (HasResponseStage /\ pc \in {"handler", "validate", "panicked"}) =>
    /\ ~w.wroteHeader
    /\ w.calls = 0 /\ w.writes = 0
    /\ w.body = <<>>
    /\ irw.buf = direct.body
    /\ Len(irw.buf) = direct.writes
    /\ (irw.statusCode = 0) = (direct.calls = 0)

C14_Witness ==
  /\ HasResponseStage
  /\ pc = "validate"
  /\ Len(irw.buf) = 2
  /\ irw.statusCode = 201
  /\ direct.by = "implicit"

\* C15: when the handler never set a status, ValidateResponse is given
\* status 200 and the client receives 200 on emission, also when the
\* handler wrote no body.
C15_DefaultStatusOK ==
  (ResponseStageDone /\ respInput # <<>> /\ irw.statusCode = 0) =>
    /\ respInput[1].Status = StatusOK
    /\ emitted => ClientView(w).status = StatusOK

C15_Witness ==
  /\ ResponseStageDone
  /\ emitted
  /\ irw.statusCode = 0
  /\ respInput[1].Body = <<>>
  /\ w.body = <<>>

\* C16: a stage starts one span per request; a failure is recorded on the
\* span of the stage before the error response is written; the span is
\* ended on every way out of the stage: success, routing failure,
\* validation failure, panic of the wrapped handler.
EventsOf(kind, stage) ==
  {k \in 1..Len(events) : events[k].kind = kind /\ events[k].stage = stage}

StageEntered(stage) ==
  IF stage = "RequestValidation" THEN pc \notin {"idle", "request"}
  ELSE handlerCalls > 0

C16_SpanPerStage ==
  /\ \A stage \in {"RequestValidation", "ResponseValidation"} :
       /\ Cardinality(EventsOf("start", stage)) =
            (IF stage \in Stages(mode) /\ StageEntered(stage) THEN 1 ELSE 0)
       /\ Cardinality(EventsOf("end", stage)) =
            (IF stage \in Stages(mode) /\ StageEntered(stage)
                  /\ pc \in {"done", "panicked"} THEN 1 ELSE 0)
       /\ \A k \in EventsOf("end", stage) : \E j \in EventsOf("start", stage) : j < k
  /\ \A k \in 1..Len(events) :
       events[k].kind = "respond" =>
         \E j \in 1..(k - 1) :
           /\ events[j].kind = "error"
           /\ events[j].stage = events[k].stage
           /\ events[j].err = events[k].err
           /\ \E i \in EventsOf("start", events[k].stage) : i < j
           /\ \A e \in EventsOf("end", events[k].stage) : k < e
  /\ \A i \in 1..Len(reports) :
       \E k \in 1..Len(events) :
         events[k].kind = "respond" /\ events[k].err = reports[i].err

C16_Witness ==
  /\ mode = "WithValidation"
  /\ pc = "panicked"
  /\ Cardinality(EventsOf("end", "RequestValidation")) = 1
  /\ Cardinality(EventsOf("end", "ResponseValidation")) = 1

\* C17: a stage takes its tracer from the TracerProvider of the options
\* when one is set, else from the span of the request context when that
\* span's context is valid, else from the process-wide default; a valid
\* span never overrides the options.
C17_TracerProviderPrecedence ==
  \A k \in 1..Len(events) :
    events[k].kind = "start" =>
      /\ options.TracerProvider # "nil" => events[k].provider = options.TracerProvider
      /\ (options.TracerProvider = "nil" /\ events[k].ctx.valid) =>
           events[k].provider = events[k].ctx.provider
      /\ (options.TracerProvider = "nil" /\ ~events[k].ctx.valid) =>
           events[k].provider = "global"

C17_Witness ==
  \E k \in 1..Len(events) :
    /\ events[k].kind = "start"
    /\ options.TracerProvider = "tpExplicit"
    /\ events[k].ctx = [valid |-> TRUE, provider |-> "tpContext"]
    /\ events[k].provider = "tpExplicit"

\* C20: when the route lookup of the response stage, made after the
\* handler returned, fails, the router-failure reporter gets the failure
\* and the captured status and body are dropped: no emit(), nothing the
\* handler wrote on the real sink.
C20_RouteFailureAfterHandler ==
  (ResponseStageDone /\ RouteFails) =>
    /\ ~emitted
    /\ respInput = <<>>
    /\ reports = <<Report("route", options.ReportFindRouteError, FindRoute(request))>>
    /\ w.wroteHeader /\ w.by = "reporter"
    /\ w.calls = 1
    /\ w.body # <<>>
    /\ \A i \in 1..Len(w.body) : w.body[i][1] # "raw"

C20_Witness ==
  /\ ResponseStageDone
  /\ RouteFails
  /\ irw.statusCode = 201
  /\ Len(irw.buf) = 2
  /\ w.status # 201

\* C18: requests served at the same time by one middleware each have their
\* own capture buffer and recorded status; what a client gets is the status
\* and the bytes of the handler invocation of its own request, in any
\* interleaving.
RawOf(body) == SelectSeq(body, LAMBDA c : c[1] = "raw")

OwnStatus(L) == IF L.own.statusCode = 0 THEN StatusOK ELSE L.own.statusCode

C18_RequestScopedCapture ==
  \A s \in Slots :
    LET L == inflight[s]
    IN /\ L.pc \in {"handler", "validate"} =>
            /\ heap[L.irw] = [rw |-> L.own, w |-> s]
            /\ \A t \in Slots \ {s} : inflight[t].irw # L.irw
       /\ L.pc \in {"request", "response", "handler", "validate", "panicked"} =>
            L.w = NewSink
       /\ L.pc = "done" =>
            /\ RawOf(L.w.body) = (IF L.emitted THEN L.own.buf ELSE <<>>)
            /\ L.emitted => /\ ClientView(L.w).status = OwnStatus(L)
                            /\ L.w.body = L.own.buf
            /\ L.respInput # <<>> =>
                 /\ L.respInput[1].Status = OwnStatus(L)
                 /\ L.respInput[1].Body = L.own.buf

C18_Witness ==
  /\ inflight[1].inst = inflight[2].inst
  /\ inflight[1].pc = "done" /\ inflight[1].emitted
  /\ inflight[1].own.buf # <<>>
  /\ inflight[2].pc = "validate"
  /\ inflight[2].own.buf # <<>>
  /\ inflight[2].own # inflight[1].own

\* C19: two middlewares built by WithValidation from the same options are
\* the same function of the request, and nothing one of them does while it
\* serves requests changes the other or a request the other is serving.
SameInput(L, M) ==
  /\ L.request = M.request
  /\ L.own = M.own
  /\ L.reqErr = M.reqErr
  /\ L.respErr = M.respErr

C19_SameOutcome ==
  /\ \A i \in Instances : instances[i].options = options
  /\ \A s, t \in Slots :
       LET L == inflight[s]
           M == inflight[t]
       IN (L.inst # M.inst /\ L.pc = "done" /\ M.pc = "done" /\ SameInput(L, M)) =>
            /\ ClientView(L.w) = ClientView(M.w)
            /\ L.emitted = M.emitted
            /\ L.respInput = M.respInput

C19_InstancesIndependent ==
  /\ []C19_SameOutcome
  /\ [][/\ instances' = instances
        /\ options' = options
        /\ \A s, t \in Slots :
             (s # t /\ inflight'[s] # inflight[s]) => inflight'[t] = inflight[t]]_vars

C19_Witness ==
  /\ inflight[1].inst # inflight[2].inst
  /\ inflight[1].pc = "done" /\ inflight[2].pc = "done"
  /\ SameInput(inflight[1], inflight[2])
  /\ inflight[1].emitted
  /\ inflight[1].own.statusCode = 201
  /\ inflight[1].own.buf # <<>>
  /\ options.ReportResponseValidationError

\* C21: in the response stage the steps of a request come in one order:
\* the handler is invoked, the handler returns, the route is looked up, the
\* response is validated, then emit() or a reporter.  Validation never
\* starts before the handler has returned; the body it is given is every
\* byte the handler wrote, in call order, and that is the body emitted on
\* success.
C21_StateOrder ==
  /\ respInput # <<>> =>
       /\ pc = "done"
       /\ handlerCalls = 1
       /\ ~RouteFails
       /\ respInput[1].Body = direct.body
  /\ emitted =>
       /\ respInput # <<>>
       /\ respErr = nil
       /\ w.body = respInput[1].Body
  /\ (HasResponseStage /\ pc \in {"handler", "validate", "panicked"}) =>
       /\ EventsOf("error", "ResponseValidation") = {}
       /\ EventsOf("respond", "ResponseValidation") = {}

C21_StepOrder ==
  /\ handlerCalls' > handlerCalls =>
       /\ pc = (IF HasResponseStage THEN "response" ELSE "request")
       /\ pc' = "handler"
  /\ (HasResponseStage /\ pc = "handler" /\ pc' # pc) => pc' \in {"validate", "panicked"}
  /\ (pc' = "validate" /\ pc # "validate") => pc = "handler"
  /\ (pc = "validate" /\ pc' # pc) => pc' = "done"
  /\ (respInput' # respInput /\ respInput' # <<>>) => pc = "validate"
  /\ (emitted' /\ ~emitted) => pc = "validate" /\ reports' = reports
  /\ (HasResponseStage /\ handlerCalls > 0 /\ Len(reports') > Len(reports)) =>
       pc = "validate" /\ ~emitted'
  /\ (HasResponseStage /\ handlerCalls > 0 /\ pc' # "idle"
        /\ (w'.body # w.body \/ w'.wroteHeader # w.wroteHeader)) => pc = "validate"

C21_FixedOrder == []C21_StateOrder /\ [][C21_StepOrder]_vars

C21_Witness ==
  /\ ResponseStageDone
  /\ emitted
  /\ direct.body = << <<"raw", "", "a">>, <<"raw", "", "b">> >>
  /\ respInput[1].Body = direct.body
  /\ w.body = direct.body
  /\ w.writes = 1

\* C22: what the handler does to the headers through the capture buffer is
\* done to the header map of the real sink at once; on the failure path the
\* handler's entries are there when the reporter writes, the default
\* reporter replaces content-type only, and every other header the handler
\* set goes out with the error response.
OtherKeys == HeaderKeys \ {"content-type"}

DefaultReporterWrote ==
  /\ w.wroteHeader
  /\ w.by = "reporter"
  /\ \A i \in 1..Len(reports) : ~reports[i].custom

C22_HeadersUnbuffered ==
  /\ (HasResponseStage /\ pc \in {"handler", "validate", "panicked"}) =>
       w.header = direct.header
  /\ (ResponseStageDone /\ ~emitted) =>
       /\ \A k \in OtherKeys :
            /\ w.header[k] = direct.header[k]
            /\ ClientView(w).header[k] = direct.header[k]
       /\ DefaultReporterWrote =>
            /\ w.sent["content-type"] = "application/json"
            /\ \A k \in OtherKeys : w.sent[k] = direct.header[k]

C22_Witness ==
  /\ ResponseStageDone
  /\ respErr # nil
  /\ DefaultReporterWrote
  /\ w.status = StatusInternalServerError
  /\ w.sent["x-request-id"] = "42"
  /\ direct.wroteHeader /\ direct.sent["x-request-id"] = ""

\* C23: the capture buffer keeps the latest status only: after several
\* WriteHeader calls, or a WriteHeader after body bytes, the status given
\* to validation and the status emitted are the last one set.
C23_LastStatusWins ==
  (HasResponseStage /\ handlerCalls > 0) =>
    /\ irw.statusCode = direct.last
    /\ (respInput # <<>> /\ direct.calls > 0) => respInput[1].Status = direct.last
    /\ (emitted /\ direct.calls > 0) =>
         /\ w.status = direct.last
         /\ w.by = "emit"
         /\ ClientView(w).status = direct.last

C23_Witness ==
  /\ ResponseStageDone
  /\ emitted
  /\ direct.by = "implicit"
  /\ direct.calls = 2
  /\ direct.last = StatusInternalServerError
  /\ respInput[1].Status = StatusInternalServerError
  /\ w.status = StatusInternalServerError
  /\ ClientView(direct).status = StatusOK

\* C24: under WithResponseValidation alone the handler is invoked before
\* any route lookup: it runs once for every request, also when the lookup
\* then fails, and only its status and its body are kept from the client.
C24_HandlerBeforeLookup ==
  mode = "WithResponseValidation" =>
    /\ pc \in {"handler", "validate", "done", "panicked"} => handlerCalls = 1
    /\ pc \in {"response", "handler"} =>
         /\ reports = <<>>
         /\ ~w.wroteHeader
         /\ EventsOf("error", "ResponseValidation") = {}
    /\ (pc = "done" /\ RouteFails) =>
         /\ ~emitted
         /\ w.wroteHeader /\ w.by = "reporter"
         /\ RawOf(w.body) = <<>>
         /\ \A k \in OtherKeys : ClientView(w).header[k] = direct.header[k]

C24_Witness ==
  /\ mode = "WithResponseValidation"
  /\ pc = "done"
  /\ RouteFails
  /\ handlerCalls = 1
  /\ irw.statusCode = 201
  /\ Len(irw.buf) = 1
  /\ w.sent["x-request-id"] = "42"

\* C25: every error of buildRequestValidationInputFromRequest is a
\* findRouteErr around the router's error, so in both stages the
\* routing-failure reporter handles every failure of the builder and the
\* branch that answers other builder errors with a generic 500 is never
\* taken.
C25_BuilderErrorsAreRouteErrors ==
  /\ LET err == buildRequestValidationInputFromRequest(request)
     IN IF FindRoute(request) = nil THEN err = nil
        ELSE /\ As(err, TFindRouteErr) = 1
             /\ Unwrap(err) = FindRoute(request)
  /\ \A k \in 1..Len(events) :
       events[k].kind = "respond" =>
         \E i \in 1..Len(reports) : reports[i].err = events[k].err
  /\ (w.wroteHeader /\ w.by = "reporter") => Len(reports) = 1
  /\ (pc = "done" /\ RouteFails) =>
       /\ Len(reports) = 1
       /\ reports[1].category = "route"
       /\ reports[1].err = FindRoute(request)

C25_Witness ==
  /\ mode = "WithValidation"
  /\ pc = "done"
  /\ RouteFails
  /\ reports = <<Report("route", FALSE, ErrMethodNotAllowed)>>
  /\ EventsOf("respond", "RequestValidation") # {}
  /\ EventsOf("start", "ResponseValidation") = {}

====
